---- MODULE Spec2Model ----
(***************************************************************************)
(* Model of the unattended update-and-notify workflow of                   *)
(* postfix_install.py (test_smtp_connection, auto_update, auto_restart,    *)
(* send_test_email and the top-level driver) together with the two         *)
(* primitives they share, run_command and send_email.                      *)
(*                                                                         *)
(* The environment is nondeterministic: every subprocess ends with exit    *)
(* status zero, with a non-zero exit status (CalledProcessError) or cannot *)
(* be started at all (FileNotFoundError or another OSError); every SMTP    *)
(* session succeeds, fails with an smtplib.SMTPException or fails with an  *)
(* OSError (connection refused, name resolution, TLS failure).             *)
(*                                                                         *)
(* Text is a sequence of tokens.  MARKER stands for the fixed text         *)
(* "The following packages will be upgraded:", "\n" for a line break.      *)
(***************************************************************************)
EXTENDS Integers, Sequences, FiniteSets, TLC

\* ---------------------------------------------------------------- bounds
\* longest captured stdout of the simulated dist-upgrade, in tokens
MaxOut == 2
\* most subprocesses of one run that write to stderr although they exit with status zero
MaxStderr == 1

\* ------------------------------------------------------------- constants
host_name == "host"
MARKER == "The following packages will be upgraded:"
NL == "\n"

\* tokens a captured stdout is built from
OutTokens == {NL, MARKER, "pkg"}

RECURSIVE SeqsUpTo(_, _)
SeqsUpTo(S, n) ==
    IF n = 0 THEN {<< >>}
    ELSE LET shorter == SeqsUpTo(S, n - 1)
         IN  shorter \cup {Append(s, t) : s \in {u \in shorter : Len(u) = n - 1}, t \in S}

\* stdout of the simulated dist-upgrade, the one output the workflow looks into
Stdouts == SeqsUpTo(OutTokens, MaxOut)
\* stdout of the other commands, which the workflow only compares with None
PlainStdouts == {<< >>, <<"pkg">>}
Stderrs == {<< >>, <<"warn">>}

\* what an SMTP session can do
SmtpResults == {"ok", "smtp_error", "os_error"}

\* ------------------------------------------------------------ text helpers
IsSpace(c) == c \in {" ", NL, "\t"}

RECURSIVE lstrip(_)
lstrip(s) == IF s # << >> /\ IsSpace(Head(s)) THEN lstrip(Tail(s)) ELSE s

RECURSIVE rstrip(_)
rstrip(s) ==
    IF s # << >> /\ IsSpace(s[Len(s)]) THEN rstrip(SubSeq(s, 1, Len(s) - 1)) ELSE s

\* str.strip()
strip(s) == rstrip(lstrip(s))

\* the "in" operator on text, for a one-token needle
Contains(s, tok) == \E k \in 1..Len(s) : s[k] = tok

RECURSIVE JoinTokens(_)
\* ' '.join(command): the label of a command
JoinTokens(command) ==
    IF command = << >> THEN ""
    ELSE IF Len(command) = 1 THEN command[1]
    ELSE command[1] \o " " \o JoinTokens(Tail(command))

RECURSIVE JoinLines(_)
\* '\n'.join(lines), as text
JoinLines(lines) ==
    IF lines = << >> THEN << >>
    ELSE IF Len(lines) = 1 THEN <<lines[1]>>
    ELSE <<lines[1], NL>> \o JoinLines(Tail(lines))

\* --------------------------------------------------------------- commands
commands ==
    << <<"sudo", "apt-get", "-y", "update">>,
       <<"sudo", "apt-get", "-y", "upgrade">>,
       <<"sudo", "apt-get", "-y", "autoremove">>,
       <<"sudo", "apt-get", "-y", "autoclean">> >>

dist_upgrade_command == <<"sudo", "apt-get", "-s", "dist-upgrade">>
reboot_command == <<"sudo", "reboot">>
test_email_command ==
    <<"echo", "This is a test email from Postfix.", "|", "mail", "-s",
      "Postfix Test Email", "TO_EMAIL">>

\* ' '.join(command) of each command line above
labels == [n \in 1..Len(commands) |-> JoinTokens(commands[n])]
dist_upgrade_label == JoinTokens(dist_upgrade_command)
reboot_label == JoinTokens(reboot_command)
test_email_label == JoinTokens(test_email_command)

\* --------------------------------------------------------------- subjects
SubjectSummary == "Update Notification from " \o host_name
SubjectDistUpgrade == "Distribution Upgrade Available on " \o host_name
SubjectReboot == "Reboot Required for " \o host_name
SubjectRebootFailed == "Reboot Failed on " \o host_name
SubjectNoReboot == "Update Complete on " \o host_name
SubjectError == "Error in Update Script on " \o host_name

\* ------------------------------------------------------------------ state
VARIABLES
    pc,                  \* position of the single thread of control
    i,                   \* index of the next entry of commands in auto_update's loop
    updates_performed,   \* auto_update's list of labels
    dist_upgrade_output, \* auto_update's local: value returned by the simulated dist-upgrade
    dist_stdout,         \* stdout the simulated dist-upgrade process wrote (environment)
    reboot_required,     \* what os.path.isfile('/var/run/reboot-required') returned
    exc,                 \* exception in flight to the top-level handler
    exit_code,           \* exit status of the interpreter
    trace,               \* every probe, subprocess and SMTP session, in order
    log,                 \* records written through logger
    env_file,            \* /etc/postfix/env_variables.env: whether it exists, and its keys
    config,              \* FROM_EMAIL, TO_EMAIL, SMTP_SERVER, EMAIL_PASSWORD of the module
    purge_pc,            \* postfix_purge.py: position of its thread of control
    purge_i,             \* postfix_purge.py: index of the next entry of purge_postfix's commands
    purge_ran,           \* postfix_purge.py: the command lines handed to subprocess.run
    purge_out,           \* postfix_purge.py: the lines printed
    purge_exit           \* postfix_purge.py: exit status of the interpreter

config_vars == <<env_file, config>>
purge_vars == <<purge_pc, purge_i, purge_ran, purge_out, purge_exit>>

vars == <<pc, i, updates_performed, dist_upgrade_output, dist_stdout,
          reboot_required, exc, exit_code, trace, log, config_vars, purge_vars>>

None == [isNone |-> TRUE, out |-> << >>]
Value(s) == [isNone |-> FALSE, out |-> s]
\* Python truthiness of an Optional[str]
Truthy(r) == ~r.isNone /\ r.out # << >>

LogRec(level, src, msg) == [level |-> level, src |-> src, msg |-> msg]

\* what subprocess.run can do with a command whose stdout is drawn from outs:
\* exit status zero, a non-zero exit status (CalledProcessError), or no process
\* at all (FileNotFoundError or another OSError)
ProcResults(outs) ==
    {p \in [kind : {"exit0"}, stdout : outs, stderr : Stderrs] :
        \/ p.stderr = << >>
        \/ Cardinality({k \in 1..Len(log) : log[k].level = "warning"
                                              /\ log[k].src = "run_command"}) < MaxStderr}
    \cup [kind : {"nonzero", "oserror"}, stdout : {<< >>}, stderr : {<< >>}]
Ev(ev, what, body, res) == [ev |-> ev, what |-> what, body |-> body, res |-> res]

\* ------------------------------------------------------------ run_command
\* result of run_command(command) when the subprocess does proc:
\* raised is the exception that leaves the function ("none" when it returns)
run_command(command, proc) ==
    IF proc.kind = "exit0" THEN
        [raised |-> "none",
         value  |-> Value(strip(proc.stdout)),
         logs   |-> <<LogRec("info", "run_command", "output")>>
                    \o (IF proc.stderr # << >>
                        THEN <<LogRec("warning", "run_command", "error")>>
                        ELSE << >>)]
    ELSE IF proc.kind = "nonzero" THEN
        [raised |-> "none",
         value  |-> None,
         logs   |-> <<LogRec("error", "run_command", "failed")>>]
    ELSE
        [raised |-> "OSError", value |-> None, logs |-> << >>]

\* ------------------------------------------------------------- send_email
\* result of send_email when the SMTP session does smtp
send_email(smtp) ==
    IF smtp = "ok" THEN
        [raised |-> "none", logs |-> <<LogRec("info", "send_email", "sent")>>]
    ELSE IF smtp = "smtp_error" THEN
        [raised |-> "none", logs |-> <<LogRec("error", "send_email", "failed")>>]
    ELSE
        [raised |-> "OSError", logs |-> << >>]

\* ----------------------------------------------------------- configuration
Keys == {"FROM_EMAIL", "TO_EMAIL", "SMTP_SERVER", "EMAIL_PASSWORD"}

\* a key of the environment: not set, or set to a text
Unset == [set |-> FALSE, val |-> << >>]
SetTo(text) == [set |-> TRUE, val |-> text]

\* texts a key is set to, and texts typed at the prompts of create_env_file
KeyTexts == {<< >>, <<"x">>}
TypedTexts == {<< >>, <<" ">>, <<"x">>}

\* the second argument of the os.getenv calls of lines 67-70
Defaults ==
    [k \in Keys |->
        CASE k = "SMTP_SERVER" -> <<"localhost">>
          [] k = "EMAIL_PASSWORD" -> << >>
          [] OTHER -> <<"default@domain.com">>]

\* variant: os.getenv(key) without a default, read as no text
getenv_nodefault(environ, key, default) ==
    IF environ[key].set THEN environ[key].val ELSE << >>

\* os.getenv(key, default)
getenv(environ, key, default) ==
    IF environ[key].set THEN environ[key].val ELSE default

\* lines 66-70
LoadConfig(environ) == [k \in Keys |-> getenv(environ, k, Defaults[k])]

NoEnvFile == [exists |-> FALSE, keys |-> [k \in Keys |-> Unset]]
CompleteEnvFile == [exists |-> TRUE, keys |-> [k \in Keys |-> SetTo(<<"x">>)]]
EnvFiles ==
    {NoEnvFile}
    \cup [exists : {TRUE}, keys : [Keys -> {Unset} \cup {SetTo(t) : t \in KeyTexts}]]

\* state of postfix_purge.py before its main() runs
InitPurge ==
    /\ purge_pc = "main"
    /\ purge_i = 1
    /\ purge_ran = << >>
    /\ purge_out = << >>
    /\ purge_exit = -1

\* state of the workflow before the driver runs
InitWorkflow ==
    /\ i = 1
    /\ updates_performed = << >>
    /\ dist_upgrade_output = None
    /\ dist_stdout = << >>
    /\ reboot_required = "unread"
    /\ exc = "none"
    /\ exit_code = -1
    /\ trace = << >>
    /\ log = << >>

\* the driver is about to run, the module-level code has read a complete
\* environment file
Init ==
    /\ pc = "test_smtp_connection"
    /\ env_file = CompleteEnvFile
    /\ config = LoadConfig(CompleteEnvFile.keys)
    /\ InitPurge
    /\ i = 1
    /\ updates_performed = << >>
    /\ dist_upgrade_output = None
    /\ dist_stdout = << >>
    /\ reboot_required = "unread"
    /\ exc = "none"
    /\ exit_code = -1
    /\ trace = << >>
    /\ log = << >>

\* ---------------------------------------------------- test_smtp_connection
\* variant: a failed probe is tried again
ProbeNext_retry(ok) == IF ok THEN "auto_update_loop" ELSE "test_smtp_connection"

\* variant: the failed probe is logged but not re-raised
ProbeNext_swallow(ok) == "auto_update_loop"

\* lines 165-167: a failed probe is logged and re-raised to the driver
ProbeNext(ok) == IF ok THEN "auto_update_loop" ELSE "handler"

test_smtp_connection ==
    /\ pc = "test_smtp_connection"
    /\ UNCHANGED <<config_vars, purge_vars>>
    /\ \E ok \in BOOLEAN :
         /\ trace' = Append(trace, Ev("probe", "noop", << >>, IF ok THEN "ok" ELSE "raise"))
         /\ IF ok
            THEN log' = Append(log, LogRec("info", "test_smtp_connection", "reachable"))
            ELSE log' = Append(log, LogRec("error", "test_smtp_connection", "unreachable"))
         /\ pc' = ProbeNext(ok)
         /\ exc' = IF ProbeNext(ok) = "handler" THEN "Exception" ELSE exc
    /\ UNCHANGED <<i, updates_performed, dist_upgrade_output, dist_stdout,
                   reboot_required, exit_code>>

\* ------------------------------------------------------------- auto_update
\* variant: the label joins the list whatever run_command returned
AppendPerformed_always(list, label, result) == Append(list, label)

\* lines 115-116: the label joins the list only when run_command returned a value
AppendPerformed(list, label, result) ==
    IF ~result.isNone THEN Append(list, label) ELSE list

\* variant: the loop is left after its first iteration
AfterLoop_early(k) == "auto_update_summary"

\* position after the loop body for entry k of commands
AfterLoop(k) ==
    IF k = Len(commands) THEN "auto_update_summary" ELSE "auto_update_loop"

SummaryBody(list) ==
    <<"The following updates were performed on " \o host_name \o ":", NL, NL>>
    \o JoinLines(list)

DistUpgradeBody(output) ==
    <<"A distribution upgrade is available on " \o host_name
        \o ". Manual intervention is required.", NL, NL, "Output:", NL>>
    \o output

\* variant: a check without output counts as a pending distribution upgrade
DistUpgradeAvailable_inverted(output) == ~Truthy(output) \/ Contains(output.out, MARKER)

\* variant: any non-empty output counts as a pending distribution upgrade
DistUpgradeAvailable_any(output) == Truthy(output)

\* line 128
DistUpgradeAvailable(output) == Truthy(output) /\ Contains(output.out, MARKER)

\* one iteration of "for command in commands"
auto_update_loop ==
    /\ pc = "auto_update_loop"
    /\ UNCHANGED <<config_vars, purge_vars>>
    /\ i \in 1..Len(commands)
    /\ \E proc \in ProcResults(PlainStdouts) :
         LET command == labels[i]
             r == run_command(commands[i], proc)
         IN  /\ trace' = Append(trace, Ev("run", command, << >>, proc.kind))
             /\ IF r.raised # "none"
                THEN /\ log' = log \o r.logs
                     /\ exc' = r.raised
                     /\ pc' = "handler"
                     /\ UNCHANGED <<i, updates_performed>>
                ELSE /\ log' = log \o r.logs
                               \o (IF r.value.isNone
                                   THEN <<LogRec("error", "auto_update", "Failed to run")>>
                                   ELSE << >>)
                     /\ updates_performed' = AppendPerformed(updates_performed, command, r.value)
                     /\ i' = i + 1
                     /\ pc' = AfterLoop(i)
                     /\ exc' = exc
    /\ UNCHANGED <<dist_upgrade_output, dist_stdout, reboot_required, exit_code>>

\* "if updates_performed: send_email(...)"
auto_update_summary ==
    /\ pc = "auto_update_summary"
    /\ UNCHANGED <<config_vars, purge_vars>>
    /\ IF updates_performed # << >>
       THEN \E smtp \in SmtpResults :
              LET r == send_email(smtp)
              IN  /\ trace' = Append(trace, Ev("mail", SubjectSummary,
                                               SummaryBody(updates_performed), smtp))
                  /\ log' = log \o r.logs
                  /\ exc' = r.raised
                  /\ pc' = IF r.raised # "none" THEN "handler" ELSE "auto_update_dist_check"
       ELSE /\ pc' = "auto_update_dist_check"
            /\ UNCHANGED <<trace, log, exc>>
    /\ UNCHANGED <<i, updates_performed, dist_upgrade_output, dist_stdout,
                   reboot_required, exit_code>>

\* line 127
auto_update_dist_check ==
    /\ pc = "auto_update_dist_check"
    /\ UNCHANGED <<config_vars, purge_vars>>
    /\ \E proc \in ProcResults(Stdouts) :
         LET r == run_command(dist_upgrade_command, proc)
         IN  /\ trace' = Append(trace, Ev("run", dist_upgrade_label, << >>, proc.kind))
             /\ log' = log \o r.logs
             /\ exc' = r.raised
             /\ dist_stdout' = proc.stdout
             /\ dist_upgrade_output' = r.value
             /\ pc' = IF r.raised # "none" THEN "handler" ELSE "auto_update_dist_notify"
    /\ UNCHANGED <<i, updates_performed, reboot_required, exit_code>>

\* lines 128-134
auto_update_dist_notify ==
    /\ pc = "auto_update_dist_notify"
    /\ UNCHANGED <<config_vars, purge_vars>>
    /\ IF DistUpgradeAvailable(dist_upgrade_output)
       THEN \E smtp \in SmtpResults :
              LET r == send_email(smtp)
              IN  /\ trace' = Append(trace, Ev("mail", SubjectDistUpgrade,
                                               DistUpgradeBody(dist_upgrade_output.out), smtp))
                  /\ log' = log \o r.logs
                  /\ exc' = r.raised
                  /\ pc' = IF r.raised # "none" THEN "handler" ELSE "auto_restart"
       ELSE /\ log' = Append(log, LogRec("info", "auto_update",
                                         "No distribution upgrades available."))
            /\ pc' = "auto_restart"
            /\ UNCHANGED <<trace, exc>>
    /\ UNCHANGED <<i, updates_performed, dist_upgrade_output, dist_stdout,
                   reboot_required, exit_code>>

\* ------------------------------------------------------------ auto_restart
\* lines 138-143 and 152-157: the marker test and the notification of its branch
auto_restart ==
    /\ pc = "auto_restart"
    /\ UNCHANGED <<config_vars, purge_vars>>
    /\ \E present \in BOOLEAN, smtp \in SmtpResults :
         LET r == send_email(smtp)
         IN  /\ reboot_required' = IF present THEN "present" ELSE "absent"
             /\ exc' = r.raised
             /\ IF present
                THEN /\ trace' = Append(trace, Ev("mail", SubjectReboot,
                                                  <<"Rebooting now.">>, smtp))
                     /\ log' = log \o r.logs
                               \o (IF r.raised = "none"
                                   THEN <<LogRec("warning", "auto_restart", "REBOOT REQUIRED")>>
                                   ELSE << >>)
                     /\ pc' = IF r.raised # "none" THEN "handler" ELSE "auto_restart_reboot"
                ELSE /\ trace' = Append(trace, Ev("mail", SubjectNoReboot,
                                                  <<"No reboot was required.">>, smtp))
                     /\ log' = Append(log, LogRec("info", "auto_restart", "No reboot required."))
                               \o r.logs
                     /\ pc' = IF r.raised # "none" THEN "handler" ELSE "send_test_email"
    /\ UNCHANGED <<i, updates_performed, dist_upgrade_output, dist_stdout, exit_code>>

\* variant: the reboot is tried again when run_command raised
AfterReboot_retry(raised) ==
    IF raised # "none" THEN "auto_restart_reboot" ELSE "send_test_email"

\* position after run_command(['sudo', 'reboot']) left the try block:
\* the except clause runs only when run_command raised
AfterReboot(raised) ==
    IF raised # "none" THEN "auto_restart_escalate" ELSE "send_test_email"

\* lines 144-147
auto_restart_reboot ==
    /\ pc = "auto_restart_reboot"
    /\ UNCHANGED <<config_vars, purge_vars>>
    /\ \E proc \in ProcResults(PlainStdouts) :
         LET r == run_command(reboot_command, proc)
         IN  /\ trace' = Append(trace, Ev("run", reboot_label, << >>, proc.kind))
             /\ log' = log \o r.logs
                       \o (IF AfterReboot(r.raised) = "auto_restart_escalate"
                           THEN <<LogRec("critical", "auto_restart", "Failed to reboot")>>
                           ELSE << >>)
             /\ pc' = AfterReboot(r.raised)
    /\ UNCHANGED <<i, updates_performed, dist_upgrade_output, dist_stdout,
                   reboot_required, exc, exit_code>>

\* lines 148-151
auto_restart_escalate ==
    /\ pc = "auto_restart_escalate"
    /\ UNCHANGED <<config_vars, purge_vars>>
    /\ \E smtp \in SmtpResults :
         LET r == send_email(smtp)
         IN  /\ trace' = Append(trace, Ev("mail", SubjectRebootFailed,
                                          <<"Manual intervention is required.">>, smtp))
             /\ log' = log \o r.logs
             /\ exc' = r.raised
             /\ pc' = IF r.raised # "none" THEN "handler" ELSE "send_test_email"
    /\ UNCHANGED <<i, updates_performed, dist_upgrade_output, dist_stdout,
                   reboot_required, exit_code>>

\* --------------------------------------------------------- send_test_email
send_test_email ==
    /\ pc = "send_test_email"
    /\ UNCHANGED <<config_vars, purge_vars>>
    /\ \E proc \in ProcResults(PlainStdouts) :
         LET r == run_command(test_email_command, proc)
         IN  /\ trace' = Append(trace, Ev("run", test_email_label, << >>, proc.kind))
             /\ log' = log \o r.logs
                       \o (IF r.raised # "none"
                           THEN <<LogRec("error", "send_test_email", "Failed to send test email")>>
                           ELSE <<LogRec("info", "send_test_email",
                                         "Test email sent successfully.")>>)
    /\ pc' = "done"
    /\ exit_code' = 0
    /\ UNCHANGED <<i, updates_performed, dist_upgrade_output, dist_stdout,
                   reboot_required, exc>>

\* ------------------------------------------------------- top-level handler
\* lines 183-188: "except Exception" of the driver
handler ==
    /\ pc = "handler"
    /\ UNCHANGED <<config_vars, purge_vars>>
    /\ \E smtp \in SmtpResults :
         LET r == send_email(smtp)
         IN  /\ trace' = Append(trace, Ev("mail", SubjectError, <<exc>>, smtp))
             /\ log' = Append(log, LogRec("critical", "main", "Unhandled exception"))
                       \o r.logs
             /\ exc' = r.raised
             /\ exit_code' = IF r.raised # "none" THEN 1 ELSE 0
    /\ pc' = "done"
    /\ UNCHANGED <<i, updates_performed, dist_upgrade_output, dist_stdout, reboot_required>>

Next ==
    \/ test_smtp_connection
    \/ auto_update_loop
    \/ auto_update_summary
    \/ auto_update_dist_check
    \/ auto_update_dist_notify
    \/ auto_restart
    \/ auto_restart_reboot
    \/ auto_restart_escalate
    \/ send_test_email
    \/ handler

Spec == Init /\ [][Next]_vars

\* ------------------------------------------- module-level configuration code
\* lines 31-53: the environment file does not exist and is written from the
\* answers typed at the prompts; a failed write ends the process with status 1
create_env_file ==
    /\ pc = "env_file"
    /\ ~env_file.exists
    /\ \E from_email, to_email, smtp_server, email_password \in TypedTexts, written \in BOOLEAN :
         IF written
         THEN /\ env_file' =
                    [exists |-> TRUE,
                     keys |-> [k \in Keys |->
                        CASE k = "FROM_EMAIL" -> SetTo(strip(from_email))
                          [] k = "TO_EMAIL" -> SetTo(strip(to_email))
                          [] k = "SMTP_SERVER" ->
                               SetTo(IF strip(smtp_server) # << >>
                                     THEN strip(smtp_server) ELSE <<"smtp.gmail.com">>)
                          [] OTHER -> SetTo(strip(email_password))]]
              /\ UNCHANGED <<pc, exit_code>>
         ELSE /\ pc' = "done"
              /\ exit_code' = 1
              /\ UNCHANGED env_file
    /\ UNCHANGED <<i, updates_performed, dist_upgrade_output, dist_stdout,
                   reboot_required, exc, trace, log, config, purge_vars>>

\* lines 55 and 66-70: load_dotenv and the four os.getenv calls; then the
\* driver starts
load_config ==
    /\ pc = "env_file"
    /\ env_file.exists
    /\ config' = LoadConfig(env_file.keys)
    /\ pc' = "test_smtp_connection"
    /\ UNCHANGED <<i, updates_performed, dist_upgrade_output, dist_stdout,
                   reboot_required, exc, exit_code, trace, log, env_file, purge_vars>>

\* the process starts with any environment file, or none
InitConfig ==
    /\ pc = "env_file"
    /\ env_file \in EnvFiles
    /\ config = [k \in Keys |-> << >>]
    /\ InitPurge
    /\ InitWorkflow

\* the module-level code, the probe and the report of a failed probe
NextConfig ==
    \/ create_env_file
    \/ load_config
    \/ test_smtp_connection
    \/ handler

SpecConfig == InitConfig /\ [][NextConfig]_vars

\* ---------------------------------------------------------- postfix_purge.py
purge_commands ==
    << <<"apt-get", "remove", "--purge", "postfix", "-y">>,
       <<"apt-get", "autoremove", "-y">>,
       <<"apt-get", "clean">>,
       <<"rm", "-rf", "/etc/postfix">>,
       <<"rm", "-f", "/etc/aliases.db">>,
       <<"rm", "-f", "/etc/postfix.env">>,
       <<"rm", "-f", "/var/log/mail.*">>,
       <<"rm", "-f", "/etc/postfix/env_variables.env">> >>

\* variant: 'sudo' is inserted a second time
PurgeArgv_twice(command, sudo) ==
    IF sudo THEN <<"sudo", "sudo">> \o command ELSE command

\* lines 14-15 of run_command(command, sudo): command.insert(0, 'sudo')
PurgeArgv(command, sudo) ==
    IF sudo THEN <<"sudo">> \o command ELSE command

\* what subprocess.run can do with a purge command: exit status zero, a
\* non-zero exit status, FileNotFoundError, or another OSError
PurgeProcResults ==
    [kind : {"exit0"}, stdout : PlainStdouts]
    \cup [kind : {"nonzero", "notfound", "oserror"}, stdout : {<< >>}]

\* variant: the FileNotFoundError branch reports and returns
PurgeFatal_nonzero_only(kind, logged) == kind = "nonzero"

\* lines 24-37: both except clauses end in exit(1); any other exception, and
\* a log file that cannot be appended to, ends the process with a traceback
PurgeFatal(kind, logged) == kind # "exit0" \/ ~logged

\* lines 22-23, 29-31 and 36: what run_command prints
PurgePrinted(argv, proc, logged) ==
    IF ~logged \/ proc.kind = "oserror" THEN << >>
    ELSE IF proc.kind = "exit0"
    THEN <<"Command executed successfully: " \o JoinTokens(argv)>> \o strip(proc.stdout)
    ELSE IF proc.kind = "nonzero"
    THEN <<"ERROR: Command failed: " \o JoinTokens(argv), "Exit Code:", "Error Message:">>
    ELSE <<"ERROR: Command not found: " \o JoinTokens(argv)>>

\* lines 57-61 and 41: the banner of main and the first line of purge_postfix
purge_main ==
    /\ purge_pc = "main"
    /\ purge_out' = purge_out \o <<"Postfix Purge Script", "=====================",
                                    "Logs will be written to /var/log/postfix_purge.log",
                                    "Purging Postfix and related configuration files...">>
    /\ purge_pc' = "purge_postfix"
    /\ UNCHANGED <<purge_i, purge_ran, purge_exit>>
    /\ UNCHANGED <<pc, i, updates_performed, dist_upgrade_output, dist_stdout,
                   reboot_required, exc, exit_code, trace, log, config_vars>>

\* one iteration of "for command in commands: run_command(command, sudo=True)"
purge_run_command ==
    /\ purge_pc = "purge_postfix"
    /\ purge_i \in 1..Len(purge_commands)
    /\ \E proc \in PurgeProcResults, logged \in BOOLEAN :
         LET argv == PurgeArgv(purge_commands[purge_i], TRUE)
         IN  /\ purge_ran' = Append(purge_ran, [argv |-> argv, res |-> proc.kind,
                                                 logged |-> logged])
             /\ purge_out' = purge_out \o PurgePrinted(argv, proc, logged)
             /\ IF PurgeFatal(proc.kind, logged)
                THEN /\ purge_pc' = "done"
                     /\ purge_exit' = 1
                     /\ UNCHANGED purge_i
                ELSE /\ purge_i' = purge_i + 1
                     /\ purge_pc' = IF purge_i = Len(purge_commands)
                                    THEN "finish" ELSE "purge_postfix"
                     /\ UNCHANGED purge_exit
    /\ UNCHANGED <<pc, i, updates_performed, dist_upgrade_output, dist_stdout,
                   reboot_required, exc, exit_code, trace, log, config_vars>>

\* lines 54 and 63: the last line of purge_postfix and of main
purge_finish ==
    /\ purge_pc = "finish"
    /\ purge_out' = purge_out \o <<"Postfix and related configurations have been removed.",
                                    "Purge complete. Review the logs for any issues.">>
    /\ purge_pc' = "done"
    /\ purge_exit' = 0
    /\ UNCHANGED <<purge_i, purge_ran>>
    /\ UNCHANGED <<pc, i, updates_performed, dist_upgrade_output, dist_stdout,
                   reboot_required, exc, exit_code, trace, log, config_vars>>

NextPurge ==
    \/ purge_main
    \/ purge_run_command
    \/ purge_finish

SpecPurge == Init /\ [][NextPurge]_vars

\* every call is synchronous and assumed to return, so the single thread of
\* control always takes its next step
SpecFair == Spec /\ WF_vars(Next)

\* ------------------------------------------------------- reading the trace
IsRun(e, label) == e.ev = "run" /\ e.what = label
IsMail(e, subject) == e.ev = "mail" /\ e.what = subject

\* positions in the trace of the invocations of a command / of a notification
RunsOf(label) == {k \in 1..Len(trace) : IsRun(trace[k], label)}
MailsOf(subject) == {k \in 1..Len(trace) : IsMail(trace[k], subject)}

Succeeded(label) ==
    \E k \in 1..Len(trace) : IsRun(trace[k], label) /\ trace[k].res = "exit0"

RECURSIVE SucceededLabels(_)
\* labels of the first n maintenance commands whose process exited with status
\* zero, in the order of the command list
SucceededLabels(n) ==
    IF n = 0 THEN << >>
    ELSE SucceededLabels(n - 1)
         \o (IF Succeeded(labels[n]) THEN <<labels[n]>> ELSE << >>)

NoDuplicates(list) == \A a, b \in 1..Len(list) : list[a] = list[b] => a = b

LoopFinished == i > Len(commands)
ProbeFailed == Len(trace) >= 1 /\ trace[1].ev = "probe" /\ trace[1].res = "raise"
ProbeSucceeded == Len(trace) >= 1 /\ trace[1].ev = "probe" /\ trace[1].res = "ok"

\* ------------------------------------------------------------------ claims

\* C1: when auto_update's loop over the four maintenance commands has finished,
\* updates_performed holds exactly the labels of the commands that succeeded,
\* in the order of the command list, without duplicates and without the label
\* of a failed command.
C1_PerformedListIsSucceeded ==
    LoopFinished =>
        /\ updates_performed = SucceededLabels(Len(commands))
        /\ NoDuplicates(updates_performed)
        /\ \A n \in 1..Len(commands) :
             ~Succeeded(labels[n]) =>
                 \A k \in 1..Len(updates_performed) :
                     updates_performed[k] # labels[n]

\* the scenario "package-index refresh fails, remaining three succeed"
C1_Witness ==
    /\ LoopFinished
    /\ \E k \in RunsOf(labels[1]) : trace[k].res = "nonzero"
    /\ updates_performed = <<"sudo apt-get -y upgrade", "sudo apt-get -y autoremove",
                             "sudo apt-get -y autoclean">>

\* C5: when the reachability probe fails, no command of the orchestrator
\* (update, upgrade, autoremove, autoclean, simulated dist-upgrade) and no
\* reboot command is ever invoked in that run.
C5_ProbeFailureBlocksCommands ==
    ProbeFailed =>
        /\ \A n \in 1..Len(commands) : RunsOf(labels[n]) = {}
        /\ RunsOf(dist_upgrade_label) = {}
        /\ RunsOf(reboot_label) = {}

\* a run that ended after a failed probe
C5_Witness == ProbeFailed /\ pc = "done" /\ MailsOf(SubjectError) # {}

\* C2: a failing send_email never changes what auto_update and auto_restart do
\* next: the run does not go to the top-level handler because of it, the
\* dist-upgrade check still runs after a failed summary notification and the
\* reboot command is still issued after a failed 'rebooting now' notification.
C2_NotifierFailureKeepsControlFlow ==
    /\ \A k \in 1..Len(trace) :
         (/\ trace[k].ev = "mail"
          /\ trace[k].what # SubjectError
          /\ trace[k].res # "ok"
          /\ k = Len(trace)) => pc # "handler"
    /\ pc = "done" =>
         /\ MailsOf(SubjectSummary) # {} => RunsOf(dist_upgrade_label) # {}
         /\ MailsOf(SubjectReboot) # {} => RunsOf(reboot_label) # {}

\* C3: when the reboot marker is present and the reboot command exits with a
\* non-zero status, the reboot phase sends two notifications, 'rebooting now'
\* and then 'reboot failed', and logs the failure at critical severity.
C3_RebootFailureEscalates ==
    (/\ pc \in {"send_test_email", "done"}
     /\ reboot_required = "present"
     /\ \E k \in RunsOf(reboot_label) : trace[k].res = "nonzero")
    => /\ Cardinality(MailsOf(SubjectReboot)) = 1
       /\ Cardinality(MailsOf(SubjectRebootFailed)) = 1
       /\ \A a \in MailsOf(SubjectReboot), b \in MailsOf(SubjectRebootFailed) : a < b
       /\ \E k \in 1..Len(log) : log[k].level = "critical" /\ log[k].src = "auto_restart"

\* C4: run_command returns a failed outcome both for a non-zero exit status
\* and for a program that cannot be started; in both cases the orchestrator
\* leaves the label out of updates_performed and goes on with its next step
\* instead of reaching the top-level handler.
C4_RunnerNeverRaises ==
    \A n \in 1..Len(commands) :
        \A k \in RunsOf(labels[n]) :
            trace[k].res \in {"nonzero", "oserror"} =>
                /\ \A j \in 1..Len(updates_performed) :
                     updates_performed[j] # labels[n]
                /\ k = Len(trace) => pc \in {"auto_update_loop", "auto_update_summary"}

\* C6: in a run that reached the reboot check: marker present => exactly one
\* reboot command and exactly one 'rebooting' notification, the notification
\* first; marker absent => no reboot command and exactly one 'no reboot
\* needed' notification.
C6_RebootCheckCounts ==
    pc = "done" =>
        /\ reboot_required = "present" =>
             /\ Cardinality(RunsOf(reboot_label)) = 1
             /\ Cardinality(MailsOf(SubjectReboot)) = 1
             /\ \A m \in MailsOf(SubjectReboot), r \in RunsOf(reboot_label) : m < r
        /\ reboot_required = "absent" =>
             /\ RunsOf(reboot_label) = {}
             /\ Cardinality(MailsOf(SubjectNoReboot)) = 1

\* C7: in any run of auto_update the summary notification is invoked exactly
\* once when at least one maintenance command succeeded and not at all when
\* all four failed, its body lists the succeeded labels one per line, and with
\* four successes, no dist-upgrade marker and no reboot marker the run has one
\* summary, no dist-upgrade notification, one 'no reboot needed' notification
\* and no reboot.
C7_SummaryOnceIffSucceeded ==
    pc = "done" =>
        /\ (\E n \in 1..Len(commands) : Succeeded(labels[n]))
             => Cardinality(MailsOf(SubjectSummary)) = 1
        /\ (\A n \in 1..Len(commands) : RunsOf(labels[n]) # {} /\ ~Succeeded(labels[n]))
             => MailsOf(SubjectSummary) = {}
        /\ \A k \in MailsOf(SubjectSummary) :
             SubSeq(trace[k].body, Len(SummaryBody(<< >>)) + 1, Len(trace[k].body))
                 = JoinLines(SucceededLabels(Len(commands)))
        /\ (/\ \A n \in 1..Len(commands) : Succeeded(labels[n])
            /\ Succeeded(dist_upgrade_label)
            /\ ~Contains(dist_stdout, MARKER)
            /\ reboot_required = "absent")
             => /\ Cardinality(MailsOf(SubjectSummary)) = 1
                /\ MailsOf(SubjectDistUpgrade) = {}
                /\ Cardinality(MailsOf(SubjectNoReboot)) = 1
                /\ RunsOf(reboot_label) = {}

\* the text a dist-upgrade notification carries after its fixed introduction
DistPayload(k) ==
    SubSeq(trace[k].body, Len(DistUpgradeBody(<< >>)) + 1, Len(trace[k].body))

\* the simulated dist-upgrade returned to auto_update and lines 128-134 have run
DistCheckDecided ==
    /\ \E k \in RunsOf(dist_upgrade_label) : trace[k].res \in {"exit0", "nonzero"}
    /\ pc # "auto_update_dist_notify"

C9_NotifyAfterDistCheck ==
    /\ \A k \in MailsOf(SubjectSummary) \cup MailsOf(SubjectDistUpgrade) :
         \E j \in RunsOf(dist_upgrade_label) : j < k
    /\ \A k \in MailsOf(SubjectReboot) \cup MailsOf(SubjectNoReboot) :
         \A j \in MailsOf(SubjectSummary) \cup MailsOf(SubjectDistUpgrade)
                  \cup RunsOf(dist_upgrade_label) : j < k

\* place of an event in the order update, upgrade, autoremove, autoclean,
\* summary notification, dist-upgrade check, dist-upgrade notification,
\* reboot check (then reboot, escalation, test mail, error report)
Rank(e) ==
    CASE e.ev = "probe" -> 0
      [] IsRun(e, labels[1]) -> 1
      [] IsRun(e, labels[2]) -> 2
      [] IsRun(e, labels[3]) -> 3
      [] IsRun(e, labels[4]) -> 4
      [] IsMail(e, SubjectSummary) -> 5
      [] IsRun(e, dist_upgrade_label) -> 6
      [] IsMail(e, SubjectDistUpgrade) -> 7
      [] IsMail(e, SubjectReboot) \/ IsMail(e, SubjectNoReboot) -> 8
      [] IsRun(e, reboot_label) -> 9
      [] IsMail(e, SubjectRebootFailed) -> 10
      [] IsRun(e, test_email_label) -> 11
      [] OTHER -> 12

RebootChecks == MailsOf(SubjectReboot) \cup MailsOf(SubjectNoReboot)

\* C9 amended: the events of a run occur in the order update, upgrade,
\* autoremove, autoclean, summary notification, dist-upgrade check,
\* dist-upgrade notification, reboot check, each at most once: the summary is
\* sent after the four maintenance commands and before the dist-upgrade check,
\* the dist-upgrade notification after that check, and the reboot check only
\* after the four commands and the dist-upgrade check have run.
C9_WorkflowOrder ==
    /\ \A a \in 1..(Len(trace) - 1) : Rank(trace[a]) < Rank(trace[a + 1])
    /\ \A k \in MailsOf(SubjectSummary) :
         /\ \A n \in 1..Len(commands) : \E j \in RunsOf(labels[n]) : j < k
         /\ \A j \in RunsOf(dist_upgrade_label) : k < j
    /\ \A k \in RebootChecks :
         /\ \A n \in 1..Len(commands) : \E j \in RunsOf(labels[n]) : j < k
         /\ \E j \in RunsOf(dist_upgrade_label) : j < k

\* a finished run with both notifications of the orchestrator and a reboot check
C9_Witness ==
    /\ pc = "done"
    /\ MailsOf(SubjectSummary) # {}
    /\ MailsOf(SubjectDistUpgrade) # {}
    /\ RebootChecks # {}

\* C10: when the probe succeeded, each of update, upgrade, autoremove,
\* autoclean and the simulated dist-upgrade is invoked exactly once whatever
\* the outcome of the earlier steps, and auto_restart then runs exactly once.
C10_AllStepsOnceThenRestart ==
    (pc = "done" /\ ProbeSucceeded) =>
        /\ \A n \in 1..Len(commands) : Cardinality(RunsOf(labels[n])) = 1
        /\ Cardinality(RunsOf(dist_upgrade_label)) = 1
        /\ reboot_required # "unread"
        /\ Cardinality(RebootChecks) = 1
        /\ \A k \in RebootChecks : \A j \in RunsOf(dist_upgrade_label) : j < k

HasLog(level, src) == \E k \in 1..Len(log) : log[k].level = level /\ log[k].src = src
HasLogMsg(src, msg) == \E k \in 1..Len(log) : log[k].src = src /\ log[k].msg = msg
Probes == {k \in 1..Len(trace) : trace[k].ev = "probe"}

\* a failure left a workflow step and the top-level handler has dealt with it
HandlerRan == pc = "done" /\ MailsOf(SubjectError) # {}

\* C11: a failure that escapes a workflow step is caught by the top-level
\* handler, which logs it at critical severity and attempts exactly one
\* 'Error in Update Script' notification before the process exits; a failure of
\* that notification is swallowed and never leaves the handler as an uncaught
\* exception.
C11_HandlerReportsAndSwallows ==
    HandlerRan =>
        /\ HasLog("critical", "main")
        /\ Cardinality(MailsOf(SubjectError)) = 1
        /\ exc = "none"

\* C12: after the top-level handler has caught a failure and attempted its
\* notification, the process ends with a non-success exit status, whether or
\* not the notification was delivered.
C12_HandlerEndsFailed ==
    HandlerRan => exit_code # 0

\* C14: there are no retries: within one run the probe, each maintenance
\* command, the simulated dist-upgrade, the reboot command and each kind of
\* notification is attempted at most once.
C14_NoRetries ==
    /\ Cardinality(Probes) <= 1
    /\ \A n \in 1..Len(commands) : Cardinality(RunsOf(labels[n])) <= 1
    /\ Cardinality(RunsOf(dist_upgrade_label)) <= 1
    /\ Cardinality(RunsOf(reboot_label)) <= 1
    /\ Cardinality(RunsOf(test_email_label)) <= 1
    /\ \A subject \in {SubjectSummary, SubjectDistUpgrade, SubjectReboot,
                       SubjectRebootFailed, SubjectNoReboot, SubjectError} :
         Cardinality(MailsOf(subject)) <= 1

\* a finished run in which an update and the reboot failed and neither was
\* attempted again
C14_Witness ==
    /\ pc = "done"
    /\ \E k \in RunsOf(labels[1]) : trace[k].res = "nonzero"
    /\ \E k \in RunsOf(reboot_label) : trace[k].res = "oserror"
    /\ MailsOf(SubjectRebootFailed) # {}

RunnerInvocations == {k \in 1..Len(trace) : trace[k].ev = "run"}
RunnerRecords == {k \in 1..Len(log) : log[k].src = "run_command"}

\* C15: every invocation of run_command, whatever its end, appends at least
\* one record to the log inside run_command, so the log holds at least as many
\* records of the runner as there were invocations; and no record once in the
\* log is removed.
C15_RunnerAlwaysLogs ==
    /\ [](Cardinality(RunnerRecords) >= Cardinality(RunnerInvocations))
    /\ [][Len(log') >= Len(log) /\ SubSeq(log', 1, Len(log)) = log]_vars

\* C17: when the simulated dist-upgrade fails or prints nothing, auto_update
\* sends no dist-upgrade notification and logs that no distribution upgrades
\* are available, as it does when the marker is absent.
C17_FailedCheckLooksClean ==
    (/\ DistCheckDecided
     /\ \/ \E k \in RunsOf(dist_upgrade_label) : trace[k].res = "nonzero"
        \/ strip(dist_stdout) = << >>)
    => /\ MailsOf(SubjectDistUpgrade) = {}
       /\ HasLogMsg("auto_update", "No distribution upgrades available.")

\* a failed simulated dist-upgrade after which the run went on to auto_restart
C17_Witness ==
    /\ pc = "auto_restart"
    /\ \E k \in RunsOf(dist_upgrade_label) : trace[k].res = "nonzero"
    /\ HasLogMsg("auto_update", "No distribution upgrades available.")

\* C19: send_test_email is the last step of every run that is not aborted; it
\* logs 'Test email sent successfully.' only if its command succeeded, logs a
\* failure when the command failed, and never triggers the top-level handler.
C19_TestEmailLogsOutcome ==
    /\ (pc = "done" /\ MailsOf(SubjectError) = {})
         => /\ RunsOf(test_email_label) # {}
            /\ IsRun(trace[Len(trace)], test_email_label)
    /\ \A k \in RunsOf(test_email_label) :
         /\ HasLogMsg("send_test_email", "Test email sent successfully.")
              => trace[k].res = "exit0"
         /\ trace[k].res # "exit0"
              => HasLogMsg("send_test_email", "Failed to send test email")
         /\ MailsOf(SubjectError) = {}

\* place of the thread of control in the workflow: probe, update, upgrade,
\* autoremove, autoclean, summary, dist-upgrade check and notification, reboot
\* check, reboot, escalation, test mail, top-level handler, end
Position ==
    CASE pc = "test_smtp_connection" -> 0
      [] pc = "auto_update_loop" -> i
      [] pc = "auto_update_summary" -> 5
      [] pc = "auto_update_dist_check" -> 6
      [] pc = "auto_update_dist_notify" -> 7
      [] pc = "auto_restart" -> 8
      [] pc = "auto_restart_reboot" -> 9
      [] pc = "auto_restart_escalate" -> 10
      [] pc = "send_test_email" -> 11
      [] pc = "handler" -> 12
      [] OTHER -> 13

\* C16: the workflow is linear and without cycles: when every external call
\* returns, every run eventually reaches its end (done or aborted), and every
\* step moves the thread of control to a later workflow state, so that no
\* workflow state is entered more than once.
C16_LinearAndTerminates ==
    /\ <>(pc = "done")
    /\ [][Position' > Position]_vars

\* a run that went through every state of the workflow to its end
C16_Witness ==
    /\ pc = "done"
    /\ Len(trace) >= 9
    /\ RunsOf(test_email_label) # {}

\* a component has used the configuration: the probe connected to SMTP_SERVER
ConfigUsed == trace # << >>

SudoTokens(argv) == {k \in 1..Len(argv) : argv[k] = "sudo"}
PurgePrintedLine(line) == \E k \in 1..Len(purge_out) : purge_out[k] = line
PurgeFinalMessages ==
    \/ PurgePrintedLine("Postfix and related configurations have been removed.")
    \/ PurgePrintedLine("Purge complete. Review the logs for any issues.")

\* C18: the purge script runs its eight commands in the listed order, each
\* with exactly one 'sudo' in front; the first command that exits non-zero or
\* cannot be found ends the process with exit status 1 and no later command
\* runs; the final messages are printed only if all eight commands succeeded.
C18_PurgeFailFast ==
    /\ Len(purge_ran) <= Len(purge_commands)
    /\ \A k \in 1..Len(purge_ran) :
         /\ purge_ran[k].argv = <<"sudo">> \o purge_commands[k]
         /\ Cardinality(SudoTokens(purge_ran[k].argv)) = 1
         /\ purge_ran[k].res \in {"nonzero", "notfound"} =>
              /\ k = Len(purge_ran)
              /\ purge_pc = "done"
              /\ purge_exit = 1
    /\ PurgeFinalMessages =>
         /\ Len(purge_ran) = Len(purge_commands)
         /\ \A k \in 1..Len(purge_ran) : purge_ran[k].res = "exit0"

\* the third command was not found after two successes, and the script ended
C18_Witness ==
    /\ Len(purge_ran) = 3
    /\ purge_ran[3].res = "notfound"
    /\ purge_ran[1].res = "exit0"
    /\ purge_pc = "done"
    /\ purge_exit = 1
====
